---------------------------- MODULE Spec2Model ----------------------------
(***************************************************************************)
(* A model of src/server.py (mcp-claude-history): the tokenizer, the pair  *)
(* generator, the co-occurrence scorer, the r-decay weighter, the h  *)
(* based top-K selection and snippet extraction of search_history, and the *)
(* line window of get_context.                                             *)
(*                                                                         *)
(* Text is a sequence of Unicode code points.  A token is a sequence of    *)
(* code points too.  String indices are 0-based where the code's are       *)
(* (str.find, slices) and converted at the SubSeq calls.                   *)
(***************************************************************************)
EXTENDS Integers, Sequences, FiniteSets, TLC

(***************************************************************************)
(* Program constants.                                                      *)
(***************************************************************************)
CJK_LO == 19968
CJK_HI == 40959
MaxTokens == 10
UserMinLen == 20
AssistantMinLen == 50
SnippetRadius == 100
ContentCap == 1000
DefaultD == 4

(***************************************************************************)
(* Bounds of the model.                                                    *)
(***************************************************************************)
MaxTextLen == 3
MaxPreLen == 2
MaxRun == 11
MaxRank == 70
MaxLines == 2
MaxMtime == 2
MaxLimit == 3
MaxCtxLines == 3
MaxLine == 50
MaxCtx == 5

Min(a, b) == IF a <= b THEN a ELSE b
Max(a, b) == IF a >= b THEN a ELSE b

(***************************************************************************)
(* Characters.  The code points the model uses:                            *)
(*   97 'a'  98 'b'  99 'c'  65 'A'  122 'z'  32 ' '  33 '!'  46 '.'        *)
(*   304 LATIN CAPITAL LETTER I WITH DOT ABOVE, whose lower() is the two   *)
(*   code points 105 775;  775 COMBINING DOT ABOVE is not alphabetic;      *)
(*   19968..40959 the CJK Unified Ideographs (20013, 25991, ...).          *)
(***************************************************************************)
IsCJK(c) == CJK_LO <= c /\ c <= CJK_HI

\* str.isalpha() on one character, for the code points above.
IsAlpha(c) == \/ c \in 65..90
              \/ c \in 97..122
              \/ c = 304
              \/ IsCJK(c)

IsSpace(c) == c \in {9, 10, 11, 12, 13, 32}

\* str.lower() on one character: a sequence, since one character can
\* lower to two.
LowerChar(c) == IF c \in 65..90 THEN <<c + 32>>
                ELSE IF c = 304 THEN <<105, 775>>
                ELSE <<c>>

\* str.lower(): the characters' lowerings concatenated (by halves, to keep
\* the evaluation shallow on long texts).
RECURSIVE Lower(_)
Lower(s) ==
    IF s = <<>> THEN <<>>
    ELSE IF Len(s) = 1 THEN LowerChar(s[1])
    ELSE Lower(SubSeq(s, 1, Len(s) \div 2)) \o Lower(SubSeq(s, Len(s) \div 2 + 1, Len(s)))

RECURSIVE LStrip(_)
LStrip(s) == IF s # <<>> /\ IsSpace(Head(s)) THEN LStrip(Tail(s)) ELSE s

RECURSIVE RStrip(_)
RStrip(s) == IF s # <<>> /\ IsSpace(s[Len(s)])
             THEN RStrip(SubSeq(s, 1, Len(s) - 1)) ELSE s

\* str.strip()
Strip(s) == RStrip(LStrip(s))

(***************************************************************************)
(* tokenize                                                                *)
(***************************************************************************)
\* The flush of the pending run (lines 30-32, 37-39, 41-42).
Flush(tokens, current_en) ==
    IF Strip(current_en) # <<>>
    THEN Append(tokens, Lower(Strip(current_en)))
    ELSE tokens

\* The character loop, lines 28-42: i is the position of the next character.
RECURSIVE TokenizeLoop(_, _, _, _)
TokenizeLoop(text, i, tokens, current_en) ==
    IF i > Len(text) THEN Flush(tokens, current_en)
    ELSE LET char == text[i] IN
         IF IsCJK(char)
         THEN TokenizeLoop(text, i + 1, Append(Flush(tokens, current_en), <<char>>),
                           IF Strip(current_en) # <<>> THEN <<>> ELSE current_en)
         ELSE IF IsAlpha(char)
         THEN TokenizeLoop(text, i + 1, tokens, Append(current_en, char))
         ELSE TokenizeLoop(text, i + 1, Flush(tokens, current_en),
                           IF Strip(current_en) # <<>> THEN <<>> ELSE current_en)

\* [t for t in tokens if t and not (t in seen or seen.add(t))]
RECURSIVE DedupLoop(_, _, _)
DedupLoop(tokens, seen, out) ==
    IF tokens = <<>> THEN out
    ELSE LET t == Head(tokens) IN
         IF t # <<>> /\ t \notin seen
         THEN DedupLoop(Tail(tokens), seen \cup {t}, Append(out, t))
         ELSE DedupLoop(Tail(tokens), seen, out)

\* tokenize with the slice [:10] taken before the deduplication.
TokenizeCapFirst(text) ==
    DedupLoop(SubSeq(TokenizeLoop(text, 1, <<>>, <<>>), 1,
                     Min(MaxTokens, Len(TokenizeLoop(text, 1, <<>>, <<>>)))),
              {}, <<>>)

tokenize(text) ==
    LET tokens == DedupLoop(TokenizeLoop(text, 1, <<>>, <<>>), {}, <<>>)
    IN  SubSeq(tokens, 1, Min(MaxTokens, Len(tokens)))

(***************************************************************************)
(* create_pairs: itertools.combinations(tokens, 2), index i < j, the lower *)
(* index fixed and the higher one varied upward.                           *)
(***************************************************************************)
RECURSIVE PairsFrom(_, _, _)
PairsFrom(tokens, i, j) ==
    IF i >= Len(tokens) THEN <<>>
    ELSE IF j > Len(tokens) THEN PairsFrom(tokens, i + 1, i + 2)
    ELSE <<    <<tokens[i], tokens[j]>>    >> \o PairsFrom(tokens, i, j + 1)

create_pairs(tokens) == PairsFrom(tokens, 1, 2)

(***************************************************************************)
(* str.find and the `in` operator on strings.                              *)
(***************************************************************************)
StartsAt(s, t, i) == /\ i + Len(t) <= Len(s)
                     /\ \A k \in 1..Len(t) : s[i + k] = t[k]

\* str.find(t): the lowest 0-based index at which t occurs in s, or -1.
Find(s, t) ==
    LET at == {i \in 0..(Len(s) - Len(t)) : StartsAt(s, t, i)}
    IN  IF at = {} THEN -1 ELSE CHOOSE i \in at : \A j \in at : i <= j

\* t in s
Contains(s, t) == Find(s, t) >= 0

(***************************************************************************)
(* count_pair_hits.  The content passed at line 118 is always a string     *)
(* (lines 105 and 110-115), so the list branch of line 53 is not taken.    *)
(***************************************************************************)
RECURSIVE SumHits(_, _)
SumHits(text_lower, prs) ==
    IF prs = <<>> THEN 0
    ELSE (IF Contains(text_lower, Head(prs)[1]) /\ Contains(text_lower, Head(prs)[2])
          THEN 1 ELSE 0) + SumHits(text_lower, Tail(prs))

count_pair_hits(text, prs) == SumHits(Lower(text), prs)

(***************************************************************************)
(* dheap_weight.  The weight 1.0 / d ** layer is the fraction num / den.   *)
(* layer = int(math.log(rank) / math.log(d)): for d = 2 and d = 4 the     *)
(* float quotient truncates to the exact floor of log_d(rank) for every    *)
(* rank in 1..100000, so the layer is computed here in integers.           *)
(***************************************************************************)
RECURSIVE Pow(_, _)
Pow(d, n) == IF n = 0 THEN 1 ELSE d * Pow(d, n - 1)

RECURSIVE Layer(_, _)
Layer(r, d) == IF r < d THEN 0 ELSE 1 + Layer(r \div d, d)

\* dheap_weight with the layer of a rank taken as ceil(log_d(rank)).
DheapWeightCeil(r, d) ==
    IF r <= 0 THEN [num |-> 1, den |-> 1]
    ELSE [num |-> 1, den |-> Pow(d, IF r = 1 THEN 0 ELSE 1 + Layer(r - 1, d))]

dheap_weight(r, d) ==
    IF r <= 0 THEN [num |-> 1, den |-> 1]
    ELSE [num |-> 1, den |-> Pow(d, Layer(Max(r, 1), d))]

(***************************************************************************)
(* The heap of search_history: a list of tuples                           *)
(* (-hits, -mtime, counter, item), here records, ordered by heapq.         *)
(***************************************************************************)
\* The tuple with the modification time not negated.
HeapEntryNegMtime(hits, mtime, cnt, item) ==
    [neg_hits |-> -hits, neg_mtime |-> mtime, counter |-> cnt, item |-> item]

\* The tuple pushed at lines 122-136.
HeapEntry(hits, mtime, cnt, item) ==
    [neg_hits |-> -hits, neg_mtime |-> -mtime, counter |-> cnt, item |-> item]

\* a < b on two heap tuples: "lt", "ge", or "error" when the first three
\* elements are equal and the comparison reaches two differing dicts
\* (TypeError: '<' not supported between 'dict' and 'dict').
TupleLt(a, b) ==
    IF a.neg_hits # b.neg_hits
    THEN (IF a.neg_hits < b.neg_hits THEN "lt" ELSE "ge")
    ELSE IF a.neg_mtime # b.neg_mtime
    THEN (IF a.neg_mtime < b.neg_mtime THEN "lt" ELSE "ge")
    ELSE IF a.counter # b.counter
    THEN (IF a.counter < b.counter THEN "lt" ELSE "ge")
    ELSE IF a.item # b.item THEN "error" ELSE "ge"

Swap(h, i, j) == [h EXCEPT ![i] = h[j], ![j] = h[i]]

\* heapq._siftdown(heap, startpos, pos), positions 0-based as in heapq.
\* The result is [heap, ok]: ok is FALSE when a comparison raised, and the
\* list is then left as the sift had it.
RECURSIVE SiftDown(_, _, _)
SiftDown(h, startpos, pos) ==
    IF pos <= startpos THEN [heap |-> h, ok |-> TRUE]
    ELSE LET parentpos == (pos - 1) \div 2
             c == TupleLt(h[pos + 1], h[parentpos + 1])
         IN  IF c = "error" THEN [heap |-> h, ok |-> FALSE]
             ELSE IF c = "lt" THEN SiftDown(Swap(h, pos + 1, parentpos + 1), startpos, parentpos)
             ELSE [heap |-> h, ok |-> TRUE]

\* heapq._siftup(heap, pos): the smaller child is bubbled up until a leaf
\* is hit, then the item is sifted down from there.
RECURSIVE SiftUpFrom(_, _, _)
SiftUpFrom(h, startpos, pos) ==
    LET endpos == Len(h)
        childpos == 2 * pos + 1
        rightpos == childpos + 1
    IN  IF childpos >= endpos THEN SiftDown(h, startpos, pos)
        ELSE LET c == IF rightpos < endpos
                      THEN TupleLt(h[childpos + 1], h[rightpos + 1])
                      ELSE "lt"
                 pick == IF c = "ge" THEN rightpos ELSE childpos
             IN  IF c = "error" THEN [heap |-> h, ok |-> FALSE]
                 ELSE SiftUpFrom(Swap(h, pos + 1, pick + 1), startpos, pick)

\* heapq.heappush(heap, item)
heappush(h, entry) == SiftDown(Append(h, entry), 0, Len(h))

\* heappop that takes the last element of the list instead of the root.
HeapPopLast(h) ==
    [heap |-> SubSeq(h, 1, Len(h) - 1), item |-> h[Len(h)], ok |-> TRUE]

\* heapq.heappop(heap), heap non-empty: [heap, item, ok].
heappop(h) ==
    LET lastelt == h[Len(h)]
        rest == SubSeq(h, 1, Len(h) - 1)
    IN  IF rest = <<>> THEN [heap |-> rest, item |-> lastelt, ok |-> TRUE]
        ELSE LET s == SiftUpFrom([rest EXCEPT ![1] = lastelt], 0, 0)
             IN  [heap |-> s.heap, item |-> h[1], ok |-> s.ok]

(***************************************************************************)
(* The corpus the scan can meet.  Message bodies are held in a table and   *)
(* named in records and heap items; Body gives the text.                  *)
(*   B1   3 characters, "a b": too short for either role.                  *)
(*   B2   30 characters, "A" at index 4 and "b" at index 9: long enough    *)
(*        for a user record, too short for an assistant record.            *)
(*   B3   230 characters: U+0130 at index 0, U+4E2D at 3, "c" at 105,      *)
(*        "b" at 112, "A" at 120, U+6587 at 225.                           *)
(*   B4   60 characters with none of the query tokens.                     *)
(***************************************************************************)
Fill(n) == [i \in 1..n |-> 46]

BodyIds == {"B1", "B2", "B3", "B4"}

B1Text == <<97, 32, 98>>
B2Text == Fill(4) \o <<65>> \o Fill(4) \o <<98>> \o Fill(20)
B3Text == <<304>> \o Fill(2) \o <<20013>> \o Fill(101) \o <<99>> \o Fill(6)
          \o <<98>> \o Fill(7) \o <<65>> \o Fill(104) \o <<25991>> \o Fill(4)
B4Text == Fill(60)

Body(id) ==
    CASE id = "B1" -> B1Text
      [] id = "B2" -> B2Text
      [] id = "B3" -> B3Text
      [] id = "B4" -> B4Text

\* One line of a session file: a record orjson.loads accepts, or "bad" for
\* a line it rejects.  An assistant record's body is the concatenation of
\* its text blocks (lines 110-113).
Records ==
    {[type |-> "bad", isMeta |-> FALSE, body |-> "B1"],
     [type |-> "other", isMeta |-> FALSE, body |-> "B3"],
     [type |-> "user", isMeta |-> FALSE, body |-> "B1"],
     [type |-> "user", isMeta |-> FALSE, body |-> "B2"],
     [type |-> "user", isMeta |-> TRUE, body |-> "B2"],
     [type |-> "user", isMeta |-> FALSE, body |-> "B4"],
     [type |-> "assistant", isMeta |-> FALSE, body |-> "B2"],
     [type |-> "assistant", isMeta |-> FALSE, body |-> "B3"]}

FileNames == {"a.jsonl", "b.jsonl"}
Mtimes == 1..MaxMtime
Limits == -1..MaxLimit

\* "!!!", "a A", "a b", "c b a", U+6587 U+4E2D
Queries == {<<33, 33, 33>>, <<97, 32, 65>>, <<97, 32, 98>>,
            <<99, 32, 98, 32, 97>>, <<25991, 20013>>}

\* count_pair_hits of every body under every query.
HitsRows ==
    {<<q, id, count_pair_hits(Body(id), create_pairs(tokenize(q)))>> :
        q \in Queries, id \in BodyIds}

HitsTable(q, id) == (CHOOSE row \in HitsRows : row[1] = q /\ row[2] = id)[3]

\* Lines 100-115: the content a record contributes, "none" for None.
Content(rec) ==
    IF rec.type = "user" /\ ~rec.isMeta
    THEN (IF Len(Body(rec.body)) > UserMinLen THEN rec.body ELSE "none")
    ELSE IF rec.type = "assistant"
    THEN (IF Len(Body(rec.body)) > AssistantMinLen THEN rec.body ELSE "none")
    ELSE "none"

(***************************************************************************)
(* Snippet extraction, lines 150-169.                                      *)
(***************************************************************************)
\* Lines 154-160: the pivot of the first pair whose tokens are both found.
RECURSIVE BestPos(_, _)
BestPos(content_lower, prs) ==
    IF prs = <<>> THEN 0
    ELSE LET pos1 == Find(content_lower, Head(prs)[1])
             pos2 == Find(content_lower, Head(prs)[2])
         IN  IF pos1 >= 0 /\ pos2 >= 0 THEN Min(pos1, pos2)
             ELSE BestPos(content_lower, Tail(prs))

\* content[start:end]
Slice(s, start, end) == SubSeq(s, start + 1, Min(end, Len(s)))

Ellipsis == <<46, 46, 46>>

\* The snippet centred on the larger of the two positions.
SnippetMaxPos(content, prs) ==
    LET lower == Lower(content)
        hit == {i \in 1..Len(prs) :
                   Find(lower, prs[i][1]) >= 0 /\ Find(lower, prs[i][2]) >= 0}
        first == IF hit = {} THEN 0 ELSE CHOOSE i \in hit : \A j \in hit : i <= j
        best_pos == IF first = 0 THEN 0
                    ELSE Max(Find(lower, prs[first][1]), Find(lower, prs[first][2]))
        start == Max(0, best_pos - SnippetRadius)
        end == Min(Len(content), best_pos + SnippetRadius)
    IN  (IF start > 0 THEN Ellipsis ELSE <<>>) \o Slice(content, start, end)
        \o (IF end < Len(content) THEN Ellipsis ELSE <<>>)

Snippet(content, prs) ==
    LET best_pos == BestPos(Lower(content), prs)
        start == Max(0, best_pos - SnippetRadius)
        end == Min(Len(content), best_pos + SnippetRadius)
    IN  (IF start > 0 THEN Ellipsis ELSE <<>>) \o Slice(content, start, end)
        \o (IF end < Len(content) THEN Ellipsis ELSE <<>>)

\* The snippet of every body under every query.
SnippetRows ==
    {<<q, id, Snippet(Body(id), create_pairs(tokenize(q)))>> :
        q \in Queries, id \in BodyIds}

SnippetTable(q, id) == (CHOOSE row \in SnippetRows : row[1] = q /\ row[2] = id)[3]

(***************************************************************************)
(* State.                                                                  *)
(*   pc        where search_history is: "idle" before the call, "glob" at  *)
(*             the head of the file loop, "lines" inside a file, "extract" *)
(*             in the loop of line 145, "done" returned, "raised" left by  *)
(*             an exception                                                *)
(*   query, limit   the arguments                                          *)
(*   pairs     create_pairs(tokenize(query))                               *)
(*   pending   the files the glob has not yielded                          *)
(*   cur       the file being read: [name, mtime]                          *)
(*   line_num  the number of the last line read of cur                     *)
(*   heap, counter, results, rank   the locals of search_history           *)
(*   stream    the candidates in push order: item, file mtime, heap tuple   *)
(*   cmp_errors   comparisons that raised inside the per-record handler    *)
(*   call, ret    the call and the result of tokenize, dheap_weight or     *)
(*             get_context                                                 *)
(***************************************************************************)
VARIABLES pc, query, limit, pairs, pending, cur, line_num, heap, counter,
          results, rank, stream, cmp_errors, call, ret

vars == <<pc, query, limit, pairs, pending, cur, line_num, heap, counter,
          results, rank, stream, cmp_errors, call, ret>>

searchVars == <<pc, query, limit, pairs, pending, cur, line_num, heap, counter,
                results, rank, stream, cmp_errors>>

NoFile == [name |-> "", mtime |-> 0]

SearchIdle ==
    /\ pc = "idle" /\ query = <<>> /\ limit = 0 /\ pairs = <<>>
    /\ pending = FileNames /\ cur = NoFile /\ line_num = 0
    /\ heap = <<>> /\ counter = 0 /\ results = <<>> /\ rank = 0
    /\ stream = <<>> /\ cmp_errors = 0

NoCall == [op |-> "none"]

NoRet == [done |-> FALSE]

Init == SearchIdle /\ call = NoCall /\ ret = NoRet

(***************************************************************************)
(* search_history                                                          *)
(***************************************************************************)
\* Lines 79-89: tokenize, pair, and return [] when there is no pair.
Start ==
    /\ pc = "idle"
    /\ \E q \in Queries :
         /\ query' = q
         /\ pairs' = create_pairs(tokenize(q))
         /\ pc' = IF Len(create_pairs(tokenize(q))) = 0 THEN "done" ELSE "glob"
    /\ UNCHANGED <<limit, pending, cur, line_num, heap, counter, results, rank,
                   stream, cmp_errors, call, ret>>

\* Line 93: session_file.stat() raises for the file the glob yielded (a
\* dangling symlink, a file removed since the listing).  The call is outside
\* every try block: the exception leaves search_history.
StatFails ==
    /\ pc = "glob"
    /\ \E f \in pending : pending' = pending \ {f}
    /\ pc' = "raised"
    /\ UNCHANGED <<query, limit, pairs, cur, line_num, heap, counter, results, rank,
                   stream, cmp_errors, call, ret>>

\* Lines 95-96 and 139-140: open() raises; the file is skipped.
OpenFails ==
    /\ pc = "glob"
    /\ \E f \in pending : pending' = pending \ {f}
    /\ UNCHANGED <<pc, query, limit, pairs, cur, line_num, heap, counter, results,
                   rank, stream, cmp_errors, call, ret>>

\* Lines 91-96: the glob yields a file, stat() and open() succeed.
OpenFile ==
    /\ pc = "glob"
    /\ \E f \in pending, m \in Mtimes :
         /\ pending' = pending \ {f}
         /\ cur' = [name |-> f, mtime |-> m]
    /\ line_num' = 0
    /\ pc' = "lines"
    /\ UNCHANGED <<query, limit, pairs, heap, counter, results, rank, stream,
                   cmp_errors, call, ret>>

\* The item dict of lines 126-135.  project and session are derived from the
\* file's path and never read again; they are left out.
Item(rec, content, hits) ==
    [type |-> rec.type, content |-> content, file |-> cur.name,
     line |-> line_num + 1, hits |-> hits,
     normalized |-> <<hits, Len(pairs)>>]

\* The test of line 119 letting a body with no hit through.
MatchesZero(hits) == hits >= 0

\* Line 119: if hits > 0
Matches(hits) == hits > 0

\* counter left as it is at line 120.
CounterStuck(c) == c

NextCounter(c) == c + 1

\* Lines 97-138: one line of the file.
ReadLine ==
    /\ pc = "lines"
    /\ line_num < MaxLines
    /\ line_num' = line_num + 1
    /\ \E rec \in Records :
         LET content == Content(rec)
             hits == IF content = "none" THEN 0 ELSE HitsTable(query, content)
             entry == HeapEntry(hits, cur.mtime, NextCounter(counter),
                                Item(rec, content, hits))
             pushed == heappush(heap, entry)
         IN  IF rec.type # "bad" /\ content # "none" /\ Matches(hits)
             THEN /\ counter' = NextCounter(counter)
                  /\ heap' = pushed.heap
                  /\ stream' = Append(stream, [item |-> entry.item, mtime |-> cur.mtime,
                                               entry |-> entry])
                  /\ cmp_errors' = IF pushed.ok THEN cmp_errors ELSE cmp_errors + 1
             ELSE UNCHANGED <<counter, heap, stream, cmp_errors>>
    /\ UNCHANGED <<pc, query, limit, pairs, pending, cur, results, rank, call, ret>>

\* Lines 97 and 139-140: reading the next line raises; the rest of the file
\* is skipped.
ReadFails ==
    /\ pc = "lines"
    /\ pc' = "glob"
    /\ cur' = NoFile
    /\ line_num' = 0
    /\ UNCHANGED <<query, limit, pairs, pending, heap, counter, results, rank,
                   stream, cmp_errors, call, ret>>

\* The file is exhausted.
EndOfFile ==
    /\ pc = "lines"
    /\ pc' = "glob"
    /\ cur' = NoFile
    /\ line_num' = 0
    /\ UNCHANGED <<query, limit, pairs, pending, heap, counter, results, rank,
                   stream, cmp_errors, call, ret>>

\* The glob is exhausted: the files still pending do not exist.  The argument
\* limit is first read at line 145, and is drawn here.
GlobEnds ==
    /\ pc = "glob"
    /\ pc' = "extract"
    /\ \E k \in Limits : limit' = k
    /\ UNCHANGED <<query, pairs, pending, cur, line_num, heap, counter,
                   results, rank, stream, cmp_errors, call, ret>>

\* The dict appended at lines 171-176.
Result(item, snippet) ==
    [file |-> item.file, line |-> item.line, hits |-> item.hits, snippet |-> snippet]

\* Line 145: while heap and rank < limit
More(h, r, k) == h # <<>> /\ r < k

\* Lines 145-176: one round of the extraction loop.
Extract ==
    /\ pc = "extract"
    /\ More(heap, rank, limit)
    /\ LET popped == heappop(heap)
       IN  /\ rank' = rank + 1
           /\ heap' = popped.heap
           /\ IF popped.ok
              THEN /\ results' = Append(results,
                          Result(popped.item.item,
                                 SnippetTable(query, popped.item.item.content)))
                   /\ pc' = pc
              ELSE /\ results' = results
                   /\ pc' = "raised"
    /\ UNCHANGED <<query, limit, pairs, pending, cur, line_num, counter, stream,
                   cmp_errors, call, ret>>

\* Lines 145 and 178: the loop ends and results is returned.
Return ==
    /\ pc = "extract"
    /\ ~More(heap, rank, limit)
    /\ pc' = "done"
    /\ UNCHANGED <<query, limit, pairs, pending, cur, line_num, heap, counter,
                   results, rank, stream, cmp_errors, call, ret>>

\* Lines 119-136 over a whole sequence of scored candidates: each is pushed
\* with the next value of counter.
RECURSIVE PushAll(_, _, _)
PushAll(h, cands, i) ==
    IF i > Len(cands) THEN h
    ELSE PushAll(heappush(h, HeapEntry(cands[i].item.hits, cands[i].mtime, i,
                                       cands[i].item)).heap,
                 cands, i + 1)

\* Lines 143-178 as a whole: the extraction loop run to its end.
RECURSIVE DrainAll(_, _, _, _, _)
DrainAll(q, h, r, k, out) ==
    IF More(h, r, k)
    THEN LET popped == heappop(h)
         IN  DrainAll(q, popped.heap, r + 1, k,
                      Append(out, Result(popped.item.item,
                                         SnippetTable(q, popped.item.item.content))))
    ELSE out

Next == \/ Start \/ StatFails \/ OpenFails \/ OpenFile \/ ReadLine \/ ReadFails
        \/ EndOfFile \/ GlobEnds \/ Extract \/ Return

Spec == Init /\ [][Next]_vars

(***************************************************************************)
(* tokenize as a call of its own.                                          *)
(***************************************************************************)
\* 'a' 'b' 'A' '!' U+4E2D U+0130
TextAlphabet == {97, 98, 65, 33, 20013, 304}

SeqsUpTo(S, n) == UNION {[1..k -> S] : k \in 0..n}

\* n distinct ideographs, none of them in TextAlphabet.
Run(n) == [i \in 1..n |-> CJK_LO + i]

Texts == SeqsUpTo(TextAlphabet, MaxTextLen)
         \cup {pre \o Run(n) : pre \in SeqsUpTo(TextAlphabet, MaxPreLen), n \in 9..MaxRun}

InitTok ==
    /\ SearchIdle
    /\ call \in {[op |-> "tokenize", text |-> t] : t \in Texts}
    /\ ret = NoRet

Tokenize ==
    /\ call.op = "tokenize"
    /\ ~ret.done
    /\ ret' = [done |-> TRUE, value |-> tokenize(call.text)]
    /\ UNCHANGED <<searchVars, call>>

NextTok == Tokenize

SpecTok == InitTok /\ [][NextTok]_vars

(***************************************************************************)
(* dheap_weight as a call of its own.                                      *)
(***************************************************************************)
Bases == {2, DefaultD}

InitWeight ==
    /\ SearchIdle
    /\ call \in {[op |-> "dheap_weight", rank |-> r, d |-> d] :
                    r \in -3..MaxRank, d \in Bases}
    /\ ret = NoRet

Weigh ==
    /\ call.op = "dheap_weight"
    /\ ~ret.done
    /\ ret' = [done |-> TRUE, value |-> dheap_weight(call.rank, call.d)]
    /\ UNCHANGED <<searchVars, call>>

NextWeight == Weigh

SpecWeight == InitWeight /\ [][NextWeight]_vars

(***************************************************************************)
(* get_context.  The named file is "missing" (no glob entry has the name), *)
(* "unreadable" (open or the read raises), or "ok" with a sequence of      *)
(* lines, each the kind of record it holds: "bad" for a line whose parse   *)
(* or rendering raises, "user", "assistant", or "other".                   *)
(***************************************************************************)
CtxKinds == {"bad", "user", "assistant", "other"}

\* The content of lines 259-271 for a record of the kind: a user's string,
\* an assistant's text and tool markers, str() of anything else's message.
CtxContent(kind) ==
    CASE kind = "user" -> B1Text
      [] kind = "assistant" -> B1Text \o <<10, 91, 84, 93>>
      [] kind = "other" -> <<>>

\* str(n) in decimal.
RECURSIVE Dec(_)
Dec(n) == IF n < 0 THEN <<45>> \o Dec(-n)
          ELSE IF n < 10 THEN <<48 + n>>
          ELSE Dec(n \div 10) \o <<48 + (n % 10)>>

\* The window test of line 254 without its lower end.
InWindowNoStart(line_no, start_line, end_line) == line_no <= end_line

\* Line 254: start_line <= line_num <= end_line
InWindow(line_no, start_line, end_line) ==
    start_line <= line_no /\ line_no <= end_line

\* Lines 253-283: the loop over the file's lines from line n on.
RECURSIVE CtxLoop(_, _, _, _, _, _)
CtxLoop(lines, n, line, start_line, end_line, context_messages) ==
    IF n > Len(lines) THEN context_messages
    ELSE LET kind == lines[n]
             msgs == IF InWindow(n, start_line, end_line) /\ kind # "bad"
                     THEN Append(context_messages,
                            [line |-> n, type |-> kind,
                             content |-> SubSeq(CtxContent(kind), 1,
                                                Min(ContentCap, Len(CtxContent(kind)))),
                             is_target |-> (n = line)])
                     ELSE context_messages
         IN  IF n > end_line THEN msgs
             ELSE CtxLoop(lines, n + 1, line, start_line, end_line, msgs)

get_context(file, line, context_lines) ==
    IF file.status = "missing" THEN [error |-> "File not found"]
    ELSE IF file.status = "unreadable" THEN [error |-> "Failed to read file"]
    ELSE LET start_line == Max(1, line - context_lines)
             end_line == line + context_lines
             context_messages == CtxLoop(file.lines, 1, line, start_line, end_line, <<>>)
         IN  [target_line |-> line,
              context_range |-> Dec(start_line) \o <<45>> \o Dec(end_line),
              messages |-> context_messages,
              total_messages |-> Len(context_messages)]

CtxFiles ==
    {[status |-> "missing", lines |-> <<>>], [status |-> "unreadable", lines |-> <<>>]}
    \cup {[status |-> "ok", lines |-> ls] : ls \in SeqsUpTo(CtxKinds, MaxCtxLines)}

InitCtx ==
    /\ SearchIdle
    /\ call \in {[op |-> "get_context", file |-> f, line |-> l, context_lines |-> c] :
                    f \in CtxFiles, l \in 0..MaxLine, c \in 0..MaxCtx}
    /\ ret = NoRet

GetContext ==
    /\ call.op = "get_context"
    /\ ~ret.done
    /\ ret' = [done |-> TRUE,
               value |-> get_context(call.file, call.line, call.context_lines)]
    /\ UNCHANGED <<searchVars, call>>

NextCtx == GetContext

SpecCtx == InitCtx /\ [][NextCtx]_vars

(***************************************************************************)
(* Properties of tokenize.                                                 *)
(***************************************************************************)
IsRunChar(c) == IsAlpha(c) /\ ~IsCJK(c)

\* The places <<i, j>> of a text where a token stands: one ideograph, or a
\* maximal run of alphabetic characters that are not ideographs.
TokenPlaces(text) ==
    {pl \in (1..Len(text)) \X (1..Len(text)) :
        \/ pl[1] = pl[2] /\ IsCJK(text[pl[1]])
        \/ /\ pl[1] <= pl[2]
           /\ \A k \in pl[1]..pl[2] : IsRunChar(text[k])
           /\ pl[1] = 1 \/ ~IsRunChar(text[pl[1] - 1])
           /\ pl[2] = Len(text) \/ ~IsRunChar(text[pl[2] + 1])}

TokenAt(text, pl) ==
    IF IsCJK(text[pl[1]]) THEN <<text[pl[1]]>> ELSE Lower(SubSeq(text, pl[1], pl[2]))

TokenSet(text) == {TokenAt(text, pl) : pl \in TokenPlaces(text)}

FirstPlace(text, tok) ==
    LET starts == {pl[1] : pl \in {x \in TokenPlaces(text) : TokenAt(text, x) = tok}}
    IN  CHOOSE i \in starts : \A j \in starts : i <= j

\* C9: tokenize returns at most 10 tokens without duplicates, in the order of
\* their first appearance; each is one CJK ideograph or the lowercased text
\* of a maximal run of alphabetic non-CJK characters; the cap of 10 is taken
\* after the duplicates are removed (the result is the first 10 of the
\* distinct tokens); a text with no token gives the empty list.
TokenizeContract ==
    (call.op = "tokenize" /\ ret.done) =>
        LET out == ret.value
            text == call.text
        IN  /\ Len(out) = Min(MaxTokens, Cardinality(TokenSet(text)))
            /\ \A k \in 1..Len(out) : out[k] \in TokenSet(text)
            /\ \A k, l \in 1..Len(out) :
                  k < l => FirstPlace(text, out[k]) < FirstPlace(text, out[l])
            /\ \A tok \in TokenSet(text) :
                  (\E k \in 1..Len(out) : FirstPlace(text, tok) <= FirstPlace(text, out[k]))
                      => \E k \in 1..Len(out) : out[k] = tok

\* A text with a repeated token and more than 10 distinct ones, tokenized.
TokenizeCapped ==
    /\ call.op = "tokenize" /\ ret.done
    /\ Len(ret.value) = MaxTokens
    /\ Cardinality(TokenSet(call.text)) > MaxTokens
    /\ Cardinality(TokenPlaces(call.text)) > Cardinality(TokenSet(call.text))

(***************************************************************************)
(* Properties of dheap_weight.                                             *)
(***************************************************************************)
Weight(n, m) == [num |-> n, den |-> m]

\* C5 as stated: with d = 4 the weight is 1 for rank 1 (and for rank <= 0),
\* 1/4 for every rank in 2..4 and 1/16 for every rank in 5..16.
WeightTableAsStated ==
    (call.op = "dheap_weight" /\ ret.done /\ call.d = DefaultD) =>
        /\ call.rank <= 1 => ret.value = Weight(1, 1)
        /\ call.rank \in 2..4 => ret.value = Weight(1, 4)
        /\ call.rank \in 5..16 => ret.value = Weight(1, 16)

\* C5 amended: with d = 4 the weight is 1 / 4^L with L = floor(log_4(rank)),
\* which is 1 for the ranks up to 3 (and for rank <= 0), 1/4 for every rank
\* in 4..15 and 1/16 for every rank in 16..63.
WeightTable ==
    (call.op = "dheap_weight" /\ ret.done /\ call.d = DefaultD) =>
        /\ call.rank <= 3 => ret.value = Weight(1, 1)
        /\ call.rank \in 4..15 => ret.value = Weight(1, 4)
        /\ call.rank \in 16..63 => ret.value = Weight(1, 16)
        /\ call.rank >= 1 =>
              /\ ret.value.num = 1
              /\ \E L \in 0..call.rank :
                    /\ ret.value.den = Pow(DefaultD, L)
                    /\ Pow(DefaultD, L) <= call.rank
                    /\ call.rank < Pow(DefaultD, L + 1)

\* Rank 2 weighed with the default base: the weight is still 1.
WeightOfRankTwo ==
    /\ call.op = "dheap_weight" /\ ret.done
    /\ call.d = DefaultD /\ call.rank = 2
    /\ ret.value = Weight(1, 1)

(***************************************************************************)
(* Properties of get_context.                                              *)
(***************************************************************************)
\* The number a string of decimal digits denotes.
RECURSIVE FromDec(_)
FromDec(digits) ==
    IF digits = <<>> THEN 0
    ELSE 10 * FromDec(SubSeq(digits, 1, Len(digits) - 1)) + (digits[Len(digits)] - 48)

\* "<a>-<b>"
IsRange(str, a, b) ==
    \E k \in 2..(Len(str) - 1) :
        /\ str[k] = 45
        /\ \A i \in 1..Len(str) : i # k => str[i] \in 48..57
        /\ FromDec(SubSeq(str, 1, k - 1)) = a
        /\ FromDec(SubSeq(str, k + 1, Len(str))) = b

BeyondEnd ==
    /\ call.op = "get_context" /\ ret.done
    /\ call.file.status = "ok"
    /\ call.line > Len(call.file.lines)

ParsedLines(lines) == {n \in 1..Len(lines) : lines[n] # "bad"}

\* The messages are the records of the lines in want, in line order, none
\* of them the target.
MessagesAre(msgs, lines, want) ==
    /\ {msgs[k].line : k \in 1..Len(msgs)} = want
    /\ \A k, l \in 1..Len(msgs) : k < l => msgs[k].line < msgs[l].line
    /\ \A k \in 1..Len(msgs) : msgs[k].type = lines[msgs[k].line] /\ ~msgs[k].is_target

\* C4 as stated: a target line past the end of the file gives all the parsed
\* records of the file, none marked is_target, and the context_range
\* "<max(1, line - context_lines)>-<line + context_lines>".
BeyondEndGivesWholeFile ==
    BeyondEnd =>
        /\ MessagesAre(ret.value.messages, call.file.lines, ParsedLines(call.file.lines))
        /\ IsRange(ret.value.context_range,
                   Max(1, call.line - call.context_lines), call.line + call.context_lines)

\* C4 amended: a target line past the end of the file gives the parsed
\* records of the lines within max(1, line - context_lines) .. line +
\* context_lines (none of them for line = 50, context_lines = 5 and 3 lines),
\* none marked is_target, and the same context_range.
BeyondEndGivesWindow ==
    BeyondEnd =>
        /\ MessagesAre(ret.value.messages, call.file.lines,
                       {n \in ParsedLines(call.file.lines) :
                           /\ Max(1, call.line - call.context_lines) <= n
                           /\ n <= call.line + call.context_lines})
        /\ ret.value.total_messages = Len(ret.value.messages)
        /\ IsRange(ret.value.context_range,
                   Max(1, call.line - call.context_lines), call.line + call.context_lines)

\* line = 50 and context_lines = 5 on a file of 3 parsable lines: no message,
\* and the range "45-55".
Line50OfThree ==
    /\ BeyondEnd
    /\ call.line = 50 /\ call.context_lines = 5
    /\ Len(call.file.lines) = 3 /\ ParsedLines(call.file.lines) = 1..3
    /\ ret.value.messages = <<>>
    /\ ret.value.context_range = <<52, 53, 45, 53, 53>>

(***************************************************************************)
(* Properties of search_history.                                           *)
(***************************************************************************)
CandHits(e) == e.item.hits
CandMtime(e) == e.mtime

\* Candidate i of the stream ranks before candidate j: more hits, then a
\* later modification time, then the earlier insertion.
Before(i, j) ==
    \/ CandHits(stream[i]) > CandHits(stream[j])
    \/ /\ CandHits(stream[i]) = CandHits(stream[j])
       /\ CandMtime(stream[i]) > CandMtime(stream[j])
    \/ /\ CandHits(stream[i]) = CandHits(stream[j])
       /\ CandMtime(stream[i]) = CandMtime(stream[j])
       /\ i < j

\* The place of candidate i in the stream sorted by that order.
PlaceOf(i) == 1 + Cardinality({j \in 1..Len(stream) : j # i /\ Before(j, i)})

\* C1: the returned list is the first min(K, n) of the n pushed candidates
\* sorted by hits descending, then modification time descending, then
\* insertion sequence ascending; it is empty for K <= 0.
TopKSorted ==
    pc = "done" =>
        /\ Len(results) = Max(0, Min(limit, Len(stream)))
        /\ \A k \in 1..Len(results) :
              \E i \in 1..Len(stream) :
                  /\ PlaceOf(i) = k
                  /\ results[k].file = stream[i].item.file
                  /\ results[k].line = stream[i].item.line
                  /\ results[k].hits = stream[i].item.hits

\* Four candidates and K = 2: the two returned tie on hits, come from
\* different files, and the later-read file is first.
TopTwoOfFour ==
    /\ pc = "done" /\ limit = 2
    /\ Len(stream) = 4 /\ Len(results) = 2
    /\ results[1].hits = results[2].hits
    /\ results[1].file # results[2].file
    /\ results[1].file = stream[4].item.file

\* C2: every returned entry carries its 1-based rank, a score equal to
\* hits / pair count times the weight of that rank, its hits, file, line
\* and snippet.
EntriesCarryRankAndScore ==
    pc = "done" =>
        \A k \in 1..Len(results) :
            /\ {"rank", "score", "hits", "file", "line", "snippet"} \subseteq DOMAIN results[k]
            /\ results[k].rank = k
            /\ results[k].score = [num |-> results[k].hits * dheap_weight(k, DefaultD).num,
                                   den |-> Len(pairs) * dheap_weight(k, DefaultD).den]

\* C3: no exception leaves search_history because of a file that cannot be
\* stat'ed, opened or read.
NoExceptionSurfaces == pc # "raised"

FilesOf(cands) == {cands[i].item.file : i \in 1..Len(cands)}

Orders(S) == {o \in [1..Cardinality(S) -> S] : \A i, j \in 1..Cardinality(S) : i # j => o[i] # o[j]}

OfFile(cands, f) == SelectSeq(cands, LAMBDA e : e.item.file = f)

\* The candidates as a traversal meeting the files in the order o pushes them.
RECURSIVE Traversal(_, _, _)
Traversal(cands, o, i) ==
    IF i > Len(o) THEN <<>> ELSE OfFile(cands, o[i]) \o Traversal(cands, o, i + 1)

\* What search_history returns when the glob yields the files in the order o.
ReturnedFor(o) == DrainAll(query, PushAll(<<>>, Traversal(stream, o, 1), 1), 0, limit, <<>>)

\* C6 as stated: the returned list is the same whatever the order in which
\* the files, and so the candidates, are traversed.
OrderIndependent ==
    pc = "done" => \A o \in Orders(FilesOf(stream)) : ReturnedFor(o) = results

NoCrossFileTie ==
    \A i, j \in 1..Len(stream) :
        stream[i].item.file # stream[j].item.file =>
            \/ CandHits(stream[i]) # CandHits(stream[j])
            \/ CandMtime(stream[i]) # CandMtime(stream[j])

\* C6 amended: the returned list is the same whatever the order in which the
\* files are traversed, provided no two candidates of different files have
\* both the same hit count and the same modification time.
OrderIndependentWithoutTies ==
    (pc = "done" /\ NoCrossFileTie) =>
        \A o \in Orders(FilesOf(stream)) : ReturnedFor(o) = results

\* Candidates of two files, no tie across them, and the file read second
\* ranks first.
SecondFileFirst ==
    /\ pc = "done" /\ NoCrossFileTie
    /\ Cardinality(FilesOf(stream)) = 2
    /\ Len(results) >= 2
    /\ results[1].file = stream[Len(stream)].item.file
    /\ results[1].file # stream[1].item.file

\* C7: search_history returns [] at once when the query has fewer than 2
\* distinct tokens, and returns [] when no candidate was pushed; every entry
\* returned has 1 <= hits <= pair count.
EmptyOrBoundedHits ==
    LET n == Min(MaxTokens, Cardinality(TokenSet(query)))
    IN  /\ (pc # "idle" /\ n < 2) => pc = "done" /\ results = <<>> /\ pending = FileNames
        /\ (pc = "done" /\ stream = <<>>) => results = <<>>
        /\ \A k \in 1..Len(results) :
              1 <= results[k].hits /\ results[k].hits <= (n * (n - 1)) \div 2

\* A query of two words and one distinct token, answered with [].
OneDistinctToken ==
    /\ pc = "done"
    /\ Cardinality(TokenPlaces(query)) = 2
    /\ Cardinality(TokenSet(query)) = 1
    /\ results = <<>>

Occurs(text, tok) == \E i \in 0..(Len(text) - Len(tok)) : StartsAt(text, tok, i)

FirstIndex(text, tok) ==
    CHOOSE i \in 0..(Len(text) - Len(tok)) :
        StartsAt(text, tok, i) /\ \A j \in 0..(i - 1) : ~StartsAt(text, tok, j)

BothOccur(text, pr) == Occurs(text, pr[1]) /\ Occurs(text, pr[2])

\* The pivot the snippet is cut around: the smaller first-occurrence index,
\* in the lowercased body, of the tokens of the first pair both of whose
\* tokens occur in it; -1 when no pair has both.
PivotOf(body, prs) ==
    LET lower == Lower(body)
        hit == {i \in 1..Len(prs) : BothOccur(lower, prs[i])}
    IN  IF hit = {} THEN -1
        ELSE LET first == CHOOSE i \in hit : \A j \in hit : i <= j
             IN  Min(FirstIndex(lower, prs[first][1]),
                     FirstIndex(lower, prs[first][2]))

\* body[a:b] with "..." before iff a > 0 and "..." after iff b < len(body),
\* for the window a = max(0, p - 100), b = min(len(body), p + 100).
WindowAround(body, p) ==
    LET a == Max(0, p - SnippetRadius)
        b == Min(Len(body), p + SnippetRadius)
    IN  (IF a > 0 THEN <<46, 46, 46>> ELSE <<>>)
        \o SubSeq(body, a + 1, b)
        \o (IF b < Len(body) THEN <<46, 46, 46>> ELSE <<>>)

PivotRows ==
    {<<q, id, PivotOf(Body(id), create_pairs(tokenize(q)))>> :
        q \in Queries, id \in BodyIds}

Pivot(q, id) == (CHOOSE row \in PivotRows : row[1] = q /\ row[2] = id)[3]

WindowRows == {<<row[1], row[2], WindowAround(Body(row[2]), row[3])>> : row \in PivotRows}

Window(q, id) == (CHOOSE row \in WindowRows : row[1] = q /\ row[2] = id)[3]

\* The body of the candidate a returned entry was made from.
BodyIdOf(entry) ==
    (CHOOSE e \in {stream[i] : i \in 1..Len(stream)} :
        e.item.file = entry.file /\ e.item.line = entry.line).item.content

CounterOrdersHeap ==
    /\ cmp_errors = 0
    /\ counter = Len(stream)
    /\ \A i \in 1..Len(stream) : stream[i].entry.counter = i
    /\ \A i, j \in 1..Len(heap) :
          i # j =>
              /\ heap[i].counter # heap[j].counter
              /\ <<heap[i].neg_hits, heap[i].neg_mtime, heap[i].counter>>
                    # <<heap[j].neg_hits, heap[j].neg_mtime, heap[j].counter>>
              /\ TupleLt(heap[i], heap[j]) # "error"
              /\ (TupleLt(heap[i], heap[j]) = "lt") # (TupleLt(heap[j], heap[i]) = "lt")
    /\ pc \in {"glob", "lines"} =>
          {heap[i] : i \in 1..Len(heap)} = {stream[i].entry : i \in 1..Len(stream)}

\* Two tuples in the heap with the same hits and the same modification time.
CounterBreaksTie ==
    /\ pc = "lines"
    /\ \E i, j \in 1..Len(heap) :
          /\ i # j
          /\ heap[i].neg_hits = heap[j].neg_hits
          /\ heap[i].neg_mtime = heap[j].neg_mtime

=============================================================================
